---- MODULE Spec2Model ----
(***************************************************************************)
(* A model of the glirc Lua extension bridge (lua-extension/glirc-lua.c):  *)
(* the extension entrypoints start, stop, process_message, process_chat    *)
(* and process_command, the protected dispatch helper `callback` and its   *)
(* worker, and the part of the Lua C API they use (value stack, registry,  *)
(* protected calls, string coercion).                                      *)
(***************************************************************************)
EXTENDS Naturals, Integers, Sequences, FiniteSets, TLC

VARIABLES
    handle,   \* per extension slot: the void* the host holds (start's result)
    interp,   \* per extension slot: the lua_State that start allocated
    crashed,  \* the host process has faulted (undefined behaviour took effect)
    last      \* what the most recent entrypoint call did and returned

vars == <<handle, interp, crashed, last>>

(***************************************************************************)
(* Bounds of the model.                                                    *)
(***************************************************************************)
\* the most values a script function returns in one call
MaxResults == 2

\* the extension slots of the host (independent loaded extensions)
Instances == {"A", "B"}

(***************************************************************************)
(* Lua values.  Every value is a record of the same shape: its type tag    *)
(* and a printable payload.  Tables and functions are references.          *)
(***************************************************************************)
Nil       == [t |-> "nil",       v |-> "nil"]
Bool(b)   == [t |-> "boolean",   v |-> IF b THEN "true" ELSE "false"]
Num(s)    == [t |-> "number",    v |-> s]
Str(s)    == [t |-> "string",    v |-> s]
Tbl(id)   == [t |-> "table",     v |-> id]
Fn(id)    == [t |-> "function",  v |-> id]
CFn(id)   == [t |-> "cfunction", v |-> id]

\* C strings as the host sees them: a pointer that may be NULL, and its text
CStr(s)   == [null |-> FALSE, text |-> s]
NULLSTR   == [null |-> TRUE,  text |-> ""]

\* the one element of a singleton set
The(S) == CHOOSE x \in S : TRUE

\* enum process_result, and the shapes of the other entrypoints' results
PASS_MESSAGE == "PASS_MESSAGE"
DROP_MESSAGE == "DROP_MESSAGE"
VOID         == "void"
NULL         == "NULL"
LPTR         == "L"

\* the four event names of the extension table
EventNames == {"process_message", "process_chat", "process_command", "stop"}

(***************************************************************************)
(* The Lua value stack: a sequence, index 1 the bottom, index -1 the top.  *)
(***************************************************************************)
lua_gettop(st) == Len(st)

\* lua_absindex: a negative index counts from the top
AbsIndex(st, idx) == IF idx > 0 THEN idx ELSE Len(st) + 1 + idx

\* a variant of lua_settop that leaves one value more than asked for
lua_settop_keeps_one(st, n) ==
    IF n + 1 <= Len(st) THEN SubSeq(st, 1, n + 1)
    ELSE st \o [k \in 1..(n - Len(st)) |-> Nil]

lua_settop(st, n) ==
    IF n <= Len(st) THEN SubSeq(st, 1, n)
    ELSE st \o [k \in 1..(n - Len(st)) |-> Nil]

\* lua_rotate(L, idx, n): rotate the elements from idx to the top n
\* positions towards the top (n < 0: -n positions towards the bottom)
lua_rotate(st, idx, n) ==
    LET a   == AbsIndex(st, idx)
        seg == SubSeq(st, a, Len(st))
        m   == Len(seg)
        k   == IF n >= 0 THEN n ELSE m + n
    IN  SubSeq(st, 1, a - 1)
          \o SubSeq(seg, m - k + 1, m) \o SubSeq(seg, 1, m - k)

\* lua_insert(L, idx) is lua_rotate(L, idx, 1)
lua_insert(st, idx) == lua_rotate(st, idx, 1)

\* a variant of lua_toboolean with C truth: the number 0 is false as well
lua_toboolean_c(val) ==
    ~(val.t = "nil" \/ (val.t = "boolean" /\ val.v = "false")
        \/ (val.t = "number" /\ val.v = "0"))

\* lua_toboolean: false for nil and false, true for every other value
lua_toboolean(val) == ~(val.t = "nil" \/ (val.t = "boolean" /\ val.v = "false"))

\* lua_tolstring / lua_tostring: the text of a string, the decimal text of
\* a number, and NULL (with length 0) for a value of any other type
lua_tolstring(val) ==
    IF val.t = "string" THEN CStr(val.v)
    ELSE IF val.t = "number" THEN CStr(val.v)
    ELSE NULLSTR


(***************************************************************************)
(* What an entrypoint call does, in order: the calls it makes that the     *)
(* host or the script can observe.                                         *)
(***************************************************************************)
NoOutcome == [kind |-> "none", vals |-> <<>>]

Ev(e)          == [ev |-> e, fn |-> Nil, args |-> <<>>, msg |-> NULLSTR, out |-> NoOutcome]
EvPrint(m)     == [ev |-> "glirc_print", fn |-> Nil, args |-> <<>>, msg |-> m, out |-> NoOutcome]
EvCall(f, a, o) == [ev |-> "call", fn |-> f, args |-> a, msg |-> NULLSTR, out |-> o]

\* luaL_loadfile(L, scriptpath): the file name it is given
EvLoad(scriptpath) ==
    [ev |-> "luaL_loadfile", fn |-> Nil, args |-> <<scriptpath>>, msg |-> NULLSTR,
     out |-> NoOutcome]

\* a call of the host's path-resolution service: its argument and result
EvResolve(raw, res) ==
    [ev |-> "glirc_resolve_path", fn |-> Nil, args |-> <<raw>>, msg |-> NULLSTR,
     out |-> [kind |-> "return", vals |-> <<res>>]]

\* the events of one kind in a trace, in order
RECURSIVE Only(_, _)
Only(tr, e) ==
    IF tr = <<>> THEN <<>>
    ELSE (IF Head(tr).ev = e THEN <<Head(tr)>> ELSE <<>>) \o Only(Tail(tr), e)

Count(tr, e) == Len(Only(tr, e))

\* the positions of the events of one kind in a trace
Positions(tr, e) == {k \in 1..Len(tr) : tr[k].ev = e}

(***************************************************************************)
(* Script code.  What a Lua function does when called is chosen by the     *)
(* script: it returns a list of values or raises an error value.           *)
(***************************************************************************)
Returns(vals) == [kind |-> "return", vals |-> vals]
Raises(val)   == [kind |-> "error",  vals |-> <<val>>]

\* values a callback may return
RetValues == {Nil, Bool(FALSE), Bool(TRUE), Num("0")}

\* values script code may raise with error()
ErrorValues == {Str("boom"), Num("42"), Nil, Bool(FALSE), Tbl("errobj")}

SeqsUpTo(S, n) == UNION {[1..k -> S] : k \in 0..n}

\* what one invocation of a script callback may do
UserOutcomes ==
    {Returns(vs) : vs \in SeqsUpTo(RetValues, MaxResults)}
        \cup {Raises(e) : e \in ErrorValues}

\* adjust a list of results to exactly n values (lua_call's nresults)
Adjust(vals, n) ==
    [k \in 1..n |-> IF k <= Len(vals) THEN vals[k] ELSE Nil]

\* the result of running code under the interpreter: normal values or a
\* raised error object, and the script calls made on the way
Normal(vals, calls) == [ok |-> TRUE,  vals |-> vals,    calls |-> calls]
Raised(val, calls)  == [ok |-> FALSE, vals |-> <<val>>, calls |-> calls]

\* lua_call(L, nargs, nresults): call f with args.  A function runs the
\* script's code (outcome uo); any other value cannot be called
lua_call(f, args, nresults, uo) ==
    IF f.t = "function"
    THEN IF uo.kind = "return"
         THEN Normal(Adjust(uo.vals, nresults), <<EvCall(f, args, uo)>>)
         ELSE Raised(uo.vals[1], <<EvCall(f, args, uo)>>)
    ELSE Raised(Str("attempt to call a " \o f.t \o " value"), <<>>)

(***************************************************************************)
(* The interpreter state (lua_State) the bridge relies on.                 *)
(***************************************************************************)
NoFields == [n \in EventNames |-> Nil]

\* no interpreter: never allocated
NoInterp ==
    [status |-> "none", stack |-> <<>>, registry |-> Nil, ext |-> NoFields,
     argtab |-> <<>>, garg |-> Nil, libs |-> 0]

\* luaL_newstate: a fresh state, empty stack, empty registry slot
NewInterp == [NoInterp EXCEPT !.status = "open"]

\* lua_close: the state is freed; nothing of it remains
ClosedInterp == [NoInterp EXCEPT !.status = "closed"]

\* lua_close(L)
lua_close(L) == ClosedInterp

\* lua_rawgetp(L, LUA_REGISTRYINDEX, &glirc_callback_module_key): the
\* registry belongs to the lua_State; the key is one address for all states
lua_rawgetp(L) == L.registry

\* lua_gettable(L, idx): t[key], honouring metatables.  The extension table
\* holds the script's fields; a string indexes the string library, which
\* has none of the event names; other values cannot be indexed
lua_gettable(L, t, key) ==
    IF t.t = "table"
    THEN Normal(<<IF t.v = "module" /\ key.v \in EventNames
                  THEN L.ext[key.v] ELSE Nil>>, <<>>)
    ELSE IF t.t = "string" /\ L.libs > 0
    THEN Normal(<<Nil>>, <<>>)
    ELSE Raised(Str("attempt to index a " \o t.t \o " value"), <<>>)

(***************************************************************************)
(* callback_worker (glirc-lua.c:129): runs inside lua_pcall with its own   *)
(* stack  name args...                                                     *)
(***************************************************************************)
\* a variant of worker_call that calls with one argument fewer,
\* lua_call(L, n - 1, 1)
worker_call_one_fewer(st, n, uo) ==
    The({IF r.ok THEN Normal(<<r.vals[Len(r.vals)]>>, r.calls)
         ELSE r :
            r \in {lua_call(lua_insert(st, 1)[Len(st) - (n - 1)],
                            SubSeq(lua_insert(st, 1), Len(st) - (n - 1) + 1, Len(st)),
                            1, uo)}})

\* lines 135-136: the stack is  ext args... callback
worker_call(st, n, uo) ==
    The({IF r.ok THEN Normal(<<r.vals[Len(r.vals)]>>, r.calls)   \* return 1: the top
         ELSE r :
            r \in {lua_call(lua_insert(st, 1)[Len(st) - n],      \* callback ext args...
                            SubSeq(lua_insert(st, 1), Len(st) - n + 1, Len(st)),
                            1, uo)}})

\* line 134: the stack is  ext args... name
worker_lookup(L, st, n, uo) ==
    LET got == lua_gettable(L, st[1], st[Len(st)])
    IN  IF ~got.ok THEN got
        ELSE IF got.vals[1].t # "nil"
        THEN worker_call(Append(SubSeq(st, 1, Len(st) - 1), got.vals[1]), n, uo)
        ELSE Normal(got.vals, <<>>)                  \* return 1: the nil

callback_worker(L, wst, uo) ==
    worker_lookup(L,
        lua_rotate(                                  \* ext args... name
            lua_insert(                              \* ext name args...
                Append(wst, lua_rawgetp(L)), 1),     \* name args... ext
            2, -1),
        lua_gettop(wst), uo)

\* lua_pcall(L, nargs, nresults, 0) of the worker: the function and its
\* arguments are replaced by the results, or by the error object
lua_pcall_worker(L, nargs, nresults, uo) ==
    LET st   == L.stack
        base == Len(st) - nargs - 1
        f    == st[base + 1]
        r    == IF f = CFn("callback_worker")
                THEN callback_worker(L, SubSeq(st, base + 2, Len(st)), uo)
                ELSE lua_call(f, SubSeq(st, base + 2, Len(st)), nresults, uo)
    IN  [ok    |-> r.ok,
         stack |-> SubSeq(st, 1, base)
                     \o (IF r.ok THEN Adjust(r.vals, nresults) ELSE r.vals),
         calls |-> r.calls]

(***************************************************************************)
(* callback (glirc-lua.c:141): the protected dispatch.  L.stack holds      *)
(* name arguments...  The result is the new interpreter state, the         *)
(* process_result and the trace of the dispatch.                           *)
(***************************************************************************)
\* a variant of callback_result that leaves the error object on the stack
callback_result_keeps_error(L, pc) ==
    IF ~pc.ok
    THEN [L      |-> [L EXCEPT !.stack = pc.stack],
          result |-> PASS_MESSAGE,
          trace  |-> <<Ev("lua_pcall")>> \o pc.calls
                       \o <<EvPrint(lua_tolstring(pc.stack[Len(pc.stack)]))>>]
    ELSE [L      |-> [L EXCEPT !.stack = lua_settop(pc.stack, 0)],
          result |-> IF lua_toboolean(pc.stack[1]) THEN DROP_MESSAGE ELSE PASS_MESSAGE,
          trace  |-> <<Ev("lua_pcall")>> \o pc.calls]

\* a variant of callback_result that stores the callback's result in the
\* registry slot instead of discarding it
callback_result_stores_result(L, pc) ==
    IF ~pc.ok
    THEN [L      |-> [L EXCEPT !.stack = lua_settop(pc.stack, 0)],
          result |-> PASS_MESSAGE,
          trace  |-> <<Ev("lua_pcall")>> \o pc.calls
                       \o <<EvPrint(lua_tolstring(pc.stack[Len(pc.stack)]))>>]
    ELSE [L      |-> [L EXCEPT !.stack = lua_settop(pc.stack, 0),
                               !.registry = pc.stack[1]],
          result |-> IF lua_toboolean(pc.stack[1]) THEN DROP_MESSAGE ELSE PASS_MESSAGE,
          trace  |-> <<Ev("lua_pcall")>> \o pc.calls]

\* lines 148-158: after the protected call, whose outcome is pc
callback_result(L, pc) ==
    IF ~pc.ok
    THEN [L      |-> [L EXCEPT !.stack = lua_settop(pc.stack, 0)],
          result |-> PASS_MESSAGE,
          trace  |-> <<Ev("lua_pcall")>> \o pc.calls
                       \o <<EvPrint(lua_tolstring(pc.stack[Len(pc.stack)]))>>]
    ELSE [L      |-> [L EXCEPT !.stack = lua_settop(pc.stack, 0)],
          result |-> IF lua_toboolean(pc.stack[1]) THEN DROP_MESSAGE ELSE PASS_MESSAGE,
          trace  |-> <<Ev("lua_pcall")>> \o pc.calls]

callback(L, nargs, uo) ==
    The({callback_result(L, pc) :
            pc \in {lua_pcall_worker(
                       [L EXCEPT !.stack =               \* worker name arguments...
                           lua_insert(Append(L.stack, CFn("callback_worker")), 1)],
                       1 + nargs, 1, uo)}})

(***************************************************************************)
(* The inputs of start: the user script, the extension arguments and the   *)
(* path of the extension's shared library.                                 *)
(***************************************************************************)
\* what a field of the script's extension table may hold
FieldValues == {Nil, Fn("handler"), Num("7")}

\* values other than a table that a script's top level may return
ModuleNonTables == {Nil, Num("42"), Str("abc"), Bool(TRUE)}

ReturnLists(first) == {<<first>>, <<first, Num("42")>>}

NoScript == [load |-> "none", run |-> NoOutcome, fields |-> NoFields]

\* a script: whether the file loads, what its top level does, and the
\* fields of the table it builds (when it returns one)
Scripts ==
    {[load |-> l, run |-> NoOutcome, fields |-> NoFields] : l \in {"missing", "syntax"}}
    \cup {[load |-> "ok", run |-> Raises(e), fields |-> NoFields] : e \in ErrorValues}
    \cup {[load |-> "ok", run |-> Returns(<<>>), fields |-> NoFields]}
    \cup {[load |-> "ok", run |-> Returns(vs), fields |-> NoFields] :
             vs \in UNION {ReturnLists(x) : x \in ModuleNonTables}}
    \cup {[load |-> "ok", run |-> Returns(vs), fields |-> f] :
             vs \in ReturnLists(Tbl("module")), f \in [EventNames -> FieldValues]}

\* const struct glirc_string *args, args_len
Argvs == {<<>>, <<"foo.lua", "x", "y">>}

\* const char *path: the library's path, as its components
LibPaths == {[abs |-> TRUE, parts |-> <<"usr", "lib", "glirc-lua.so">>]}

RECURSIVE JoinPath(_)
JoinPath(parts) ==
    IF Len(parts) = 0 THEN ""
    ELSE IF Len(parts) = 1 THEN parts[1]
    ELSE parts[1] \o "/" \o JoinPath(Tail(parts))

\* dirname(3)
dirname(path) ==
    IF Len(path.parts) <= 1
    THEN (IF path.abs THEN "/" ELSE ".")
    ELSE (IF path.abs THEN "/" ELSE "")
            \o JoinPath(SubSeq(path.parts, 1, Len(path.parts) - 1))

\* glirc_resolve_path: the host's path-resolution service
glirc_resolve_path(raw) == "/home/user/.config/glirc/" \o raw

\* push_glirc_string: a glirc_string as a Lua string
push_glirc_string(str) == Str(str)

\* args[i] of the C array (0-based)
CArg(args, i) == args[i + 1]

\* a variant of push_scriptname that takes args[0] as it is, unresolved
push_scriptname_unresolved(path, args, args_n) ==
    IF args_n = 0
    THEN Str(dirname(path) \o "/glirc.lua")
    ELSE Str(CArg(args, 0))

\* push_scriptname (glirc-lua.c:62): the value pushed on the stack
push_scriptname(path, args, args_n) ==
    IF args_n = 0
    THEN Str(dirname(path) \o "/glirc.lua")
    ELSE Str(glirc_resolve_path(CArg(args, 0)))

\* push_scriptname: the calls it makes to the host (glirc-lua.c:75)
push_scriptname_trace(path, args, args_n) ==
    IF args_n = 0 THEN <<>>
    ELSE <<EvResolve(CArg(args, 0), glirc_resolve_path(CArg(args, 0)))>>

\* lua_rawseti(L, idx, k): t[k] = v for the table's content t
lua_rawseti(tab, k, val) == (k :> val) @@ tab

\* the loop of start (glirc-lua.c:108) from index i on
RECURSIVE ArgLoop(_, _, _)
ArgLoop(tab, args, i) ==
    IF i < Len(args)
    THEN ArgLoop(lua_rawseti(tab, 1, push_glirc_string(CArg(args, i))), args, i + 1)
    ELSE tab

(***************************************************************************)
(* initialize_lua (glirc-lua.c:27): runs under start's lua_pcall with the  *)
(* stack  arg scriptpath.  Yields the interpreter after it, whether it     *)
(* returned or raised (and the error object), and what it did.             *)
(***************************************************************************)
luaL_loadfile(scriptpath, script) ==
    IF script.load = "ok" THEN Normal(<<Fn("script")>>, <<>>)
    ELSE IF script.load = "missing"
    THEN Raised(Str("cannot open " \o scriptpath), <<>>)
    ELSE Raised(Str(scriptpath \o ":1: syntax error"), <<>>)

\* a variant of initialize_lua_trace in which the script runs before the
\* host's bindings are installed
initialize_lua_trace_script_first(scriptpath, calls) ==
    <<EvLoad(scriptpath), Ev("lua_setglobal")>> \o calls \o <<Ev("glirc_install_lib")>>

\* lines 38-50 in order: load, set the global arg, install the libraries,
\* then the script's top level (calls)
initialize_lua_trace(scriptpath, calls) ==
    <<EvLoad(scriptpath), Ev("lua_setglobal"), Ev("glirc_install_lib")>> \o calls

\* a variant of call_script that keeps two results of the script
call_script_two_results(st, script) ==
    lua_call(st[Len(st)], <<>>, 2, script.run)

\* line 50, lua_call(L, 0, 1): the stack is  script ; no arguments, one result
call_script(st, script) ==
    lua_call(st[Len(st)], <<>>, 1, script.run)

initialize_lua(L, fst, script) ==
    IF ~(Len(fst) = 2 /\ fst[1].t = "table" /\ fst[2].t \in {"string", "number"})
    THEN [L |-> L, ok |-> FALSE, err |-> Str("bad argument"), trace |-> <<>>]
    ELSE
      LET scriptpath == fst[2].v
          ld == luaL_loadfile(scriptpath, script)
      IN  IF ~ld.ok
          THEN [L |-> L, ok |-> FALSE, err |-> ld.vals[1],
                trace |-> <<EvLoad(scriptpath)>>]
          ELSE
            LET s1 == Append(fst, ld.vals[1])        \* arg scriptpath script
                s2 == lua_insert(s1, 1)              \* script arg scriptpath
                L1 == [L EXCEPT !.argtab = lua_rawseti(@, 0, s2[Len(s2)])]
                s3 == SubSeq(s2, 1, Len(s2) - 1)     \* script arg
                L2 == [L1 EXCEPT !.garg = s3[Len(s3)]]   \* lua_setglobal "arg"
                s4 == SubSeq(s3, 1, Len(s3) - 1)     \* script
                L3 == [L2 EXCEPT !.libs = @ + 1]     \* luaL_openlibs, glirc_install_lib
                L4 == IF script.run.kind = "return"
                      THEN [L3 EXCEPT !.ext = script.fields] ELSE L3
                r  == call_script(s4, script)
                tr == initialize_lua_trace(scriptpath, r.calls)
            IN  IF ~r.ok
                THEN [L |-> L4, ok |-> FALSE, err |-> r.vals[1], trace |-> tr]
                ELSE  \* lua_rawsetp(L, LUA_REGISTRYINDEX, &glirc_callback_module_key)
                      \* stores the value on top of the stack
                     [L |-> [L4 EXCEPT !.registry = r.vals[Len(r.vals)]],
                      ok |-> TRUE, err |-> Nil, trace |-> tr \o <<Ev("lua_rawsetp")>>]

\* LUA_EXTRASPACE < sizeof(struct glirc *): false on every supported build
ExtraspaceTooSmall == FALSE

\* a variant of cleanup that closes the interpreter before it prints
cleanup_close_first(err, hasL) ==
    (IF hasL THEN <<Ev("lua_close")>> ELSE <<>>) \o <<EvPrint(err)>>

\* the cleanup label of start (glirc-lua.c:121): print, then close
cleanup(err, hasL) ==
    <<EvPrint(err)>> \o (IF hasL THEN <<Ev("lua_close")>> ELSE <<>>)


(***************************************************************************)
(* The state between entrypoint calls.                                     *)
(***************************************************************************)
UNSET == "unset"

\* the record of one entrypoint call: which, on which slot, with which
\* handle (and whether its interpreter was open), its result (NORETURN when
\* the process faulted inside it), what it did, and start's script
NORETURN == "no return"

NoPath == [abs |-> FALSE, parts |-> <<>>]

CallRec(op, i, h, live, result, trace, script) ==
    [op |-> op, inst |-> i, handle |-> h, live |-> live, result |-> result,
     trace |-> trace, script |-> script, path |-> NoPath, args |-> <<>>]

\* the record of a call of start: also the library path and the extension
\* arguments it was given
StartRec(i, result, trace, script, path, args) ==
    [CallRec("start", i, UNSET, FALSE, result, trace, script)
        EXCEPT !.path = path, !.args = args]

Init ==
    /\ handle  = [i \in Instances |-> UNSET]
    /\ interp  = [i \in Instances |-> NoInterp]
    /\ crashed = FALSE
    /\ last    = CallRec("none", "A", UNSET, FALSE, VOID, <<>>, NoScript)

\* the outcomes of undefined behaviour: the process faults, or the access
\* goes through and the code carries on with whatever it read
UBOutcomes == {"fault", "carries on"}

(***************************************************************************)
(* start (glirc-lua.c:86)                                                  *)
(***************************************************************************)
start(i, path, args, script, newstate_ok) ==
    /\ ~crashed
    /\ handle[i] # LPTR \/ interp[i].status = "closed"
    /\ IF ExtraspaceTooSmall
       THEN /\ last' = StartRec(i, NULL,
                               cleanup(CStr("Lua extraspace too small"), FALSE), script, path, args)
            /\ handle' = [handle EXCEPT ![i] = NULL]
            /\ interp' = [interp EXCEPT ![i] = NoInterp]
            /\ UNCHANGED crashed
       ELSE IF ~newstate_ok
       THEN /\ last' = StartRec(i, NULL,
                               <<Ev("luaL_newstate")>>
                                 \o cleanup(CStr("Failed to allocate Lua interpreter"), FALSE),
                               script, path, args)
            /\ handle' = [handle EXCEPT ![i] = NULL]
            /\ interp' = [interp EXCEPT ![i] = NoInterp]
            /\ UNCHANGED crashed
       ELSE
         \E st \in {<<CFn("initialize_lua"), Tbl("arg"),
                      push_scriptname(path, args, Len(args))>>} :
         \E pt \in {push_scriptname_trace(path, args, Len(args))} :
         \E r \in {initialize_lua(                   \* lua_pcall(L, 2, 0, 0)
                      [NewInterp EXCEPT !.argtab = ArgLoop(<<>>, args, 1)],
                      SubSeq(st, Len(st) - 1, Len(st)), script)} :
           IF r.ok
           THEN /\ last' = StartRec(i, LPTR,
                                   <<Ev("luaL_newstate")>> \o pt \o <<Ev("lua_pcall")>> \o r.trace, script, path, args)
                /\ handle' = [handle EXCEPT ![i] = LPTR]
                /\ interp' = [interp EXCEPT ![i] =
                                 [r.L EXCEPT !.stack = SubSeq(st, 1, Len(st) - 3)]]
                /\ UNCHANGED crashed
           ELSE
             \E err \in {lua_tolstring(r.err)} :     \* err = lua_tostring(L, -1)
             \E ub \in (IF err.null THEN UBOutcomes ELSE {"carries on"}) :
                IF err.null /\ ub = "fault"          \* strlen(NULL)
                THEN /\ last' = StartRec(i, NORETURN,
                                        <<Ev("luaL_newstate")>> \o pt \o <<Ev("lua_pcall")>> \o r.trace,
                                        script, path, args)
                     /\ crashed' = TRUE
                     /\ interp' = [interp EXCEPT ![i] =
                                      [r.L EXCEPT !.stack = SubSeq(st, 1, Len(st) - 3)
                                                               \o <<r.err>>]]
                     /\ handle' = [handle EXCEPT ![i] = UNSET]
                ELSE /\ last' = StartRec(i, NULL,
                                        <<Ev("luaL_newstate")>> \o pt \o <<Ev("lua_pcall")>> \o r.trace
                                           \o cleanup(err, TRUE),
                                        script, path, args)
                     /\ handle' = [handle EXCEPT ![i] = NULL]
                     /\ interp' = [interp EXCEPT ![i] = lua_close(r.L)]
                     /\ UNCHANGED crashed

(***************************************************************************)
(* The event entrypoints.  An entrypoint handed a pointer to a closed      *)
(* lua_State uses freed memory.                                            *)
(***************************************************************************)
\* push_glirc_message, push_glirc_chat, push_glirc_command: one table
push_glirc_message == Tbl("message")
push_glirc_chat    == Tbl("chat")
push_glirc_command == Tbl("command")

\* an entrypoint called with a pointer to freed memory
UseAfterFree(i, op, results, closes) ==
    \E ub \in UBOutcomes :
       IF ub = "fault"
       THEN /\ last' = CallRec(op, i, LPTR, FALSE, NORETURN, <<Ev("use_after_free")>>, NoScript)
            /\ crashed' = TRUE
            /\ UNCHANGED <<handle, interp>>
       ELSE /\ \E res \in results :
                 last' = CallRec(op, i, LPTR, FALSE, res,
                                 <<Ev("use_after_free")>>
                                   \o (IF closes THEN <<Ev("lua_close")>> ELSE <<>>),
                                 NoScript)
            /\ UNCHANGED <<handle, interp, crashed>>

\* message_entrypoint (glirc-lua.c:169)
message_entrypoint(i, uo) ==
    /\ ~crashed
    /\ handle[i] # UNSET
    /\ IF handle[i] = NULL
       THEN /\ last' = CallRec("process_message", i, NULL, FALSE, PASS_MESSAGE, <<>>, NoScript)
            /\ UNCHANGED <<handle, interp, crashed>>
       ELSE IF interp[i].status # "open"
       THEN UseAfterFree(i, "process_message", {PASS_MESSAGE, DROP_MESSAGE}, FALSE)
       ELSE \E r \in {callback([interp[i] EXCEPT !.stack = @ \o <<Str("process_message"), push_glirc_message>>], 1, uo)} :
                /\ last' = CallRec("process_message", i, LPTR, TRUE, r.result, r.trace, NoScript)
                /\ interp' = [interp EXCEPT ![i] = r.L]
                /\ UNCHANGED <<handle, crashed>>

\* a variant of chat_entrypoint without the test for a null handle: the
\* push on a null lua_State faults
chat_entrypoint_no_null_test(i, uo) ==
    /\ ~crashed
    /\ handle[i] # UNSET
    /\ IF handle[i] = NULL \/ interp[i].status # "open"
       THEN /\ last' = CallRec("process_chat", i, handle[i], FALSE, NORETURN,
                               <<Ev("use_after_free")>>, NoScript)
            /\ crashed' = TRUE
            /\ UNCHANGED <<handle, interp>>
       ELSE \E r \in {callback([interp[i] EXCEPT !.stack = @ \o <<Str("process_chat"), push_glirc_chat>>], 1, uo)} :
                /\ last' = CallRec("process_chat", i, LPTR, TRUE, r.result, r.trace, NoScript)
                /\ interp' = [interp EXCEPT ![i] = r.L]
                /\ UNCHANGED <<handle, crashed>>

\* chat_entrypoint (glirc-lua.c:177)
chat_entrypoint(i, uo) ==
    /\ ~crashed
    /\ handle[i] # UNSET
    /\ IF handle[i] = NULL
       THEN /\ last' = CallRec("process_chat", i, NULL, FALSE, PASS_MESSAGE, <<>>, NoScript)
            /\ UNCHANGED <<handle, interp, crashed>>
       ELSE IF interp[i].status # "open"
       THEN UseAfterFree(i, "process_chat", {PASS_MESSAGE, DROP_MESSAGE}, FALSE)
       ELSE \E r \in {callback([interp[i] EXCEPT !.stack = @ \o <<Str("process_chat"), push_glirc_chat>>], 1, uo)} :
                /\ last' = CallRec("process_chat", i, LPTR, TRUE, r.result, r.trace, NoScript)
                /\ interp' = [interp EXCEPT ![i] = r.L]
                /\ UNCHANGED <<handle, crashed>>

\* command_entrypoint (glirc-lua.c:185): the result of callback is dropped
command_entrypoint(i, uo) ==
    /\ ~crashed
    /\ handle[i] # UNSET
    /\ IF handle[i] = NULL
       THEN /\ last' = CallRec("process_command", i, NULL, FALSE, VOID, <<>>, NoScript)
            /\ UNCHANGED <<handle, interp, crashed>>
       ELSE IF interp[i].status # "open"
       THEN UseAfterFree(i, "process_command", {VOID}, FALSE)
       ELSE \E r \in {callback([interp[i] EXCEPT !.stack = @ \o <<Str("process_command"), push_glirc_command>>], 1, uo)} :
                /\ last' = CallRec("process_command", i, LPTR, TRUE, VOID, r.trace, NoScript)
                /\ interp' = [interp EXCEPT ![i] = r.L]
                /\ UNCHANGED <<handle, crashed>>

\* a variant of stop_entrypoint that closes the interpreter without
\* dispatching the stop event
stop_entrypoint_no_dispatch(i, uo) ==
    /\ ~crashed
    /\ handle[i] # UNSET
    /\ IF handle[i] = NULL
       THEN /\ last' = CallRec("stop", i, NULL, FALSE, VOID, <<>>, NoScript)
            /\ UNCHANGED <<handle, interp, crashed>>
       ELSE IF interp[i].status # "open"
       THEN UseAfterFree(i, "stop", {VOID}, TRUE)
       ELSE /\ last' = CallRec("stop", i, LPTR, TRUE, VOID, <<Ev("lua_close")>>, NoScript)
            /\ interp' = [interp EXCEPT ![i] = lua_close(interp[i])]
            /\ UNCHANGED <<handle, crashed>>

\* stop_entrypoint (glirc-lua.c:161): dispatch "stop", then close
stop_entrypoint(i, uo) ==
    /\ ~crashed
    /\ handle[i] # UNSET
    /\ IF handle[i] = NULL
       THEN /\ last' = CallRec("stop", i, NULL, FALSE, VOID, <<>>, NoScript)
            /\ UNCHANGED <<handle, interp, crashed>>
       ELSE IF interp[i].status # "open"
       THEN UseAfterFree(i, "stop", {VOID}, TRUE)
       ELSE \E r \in {callback([interp[i] EXCEPT !.stack = @ \o <<Str("stop")>>], 0, uo)} :
                /\ last' = CallRec("stop", i, LPTR, TRUE, VOID,
                                   r.trace \o <<Ev("lua_close")>>, NoScript)
                /\ interp' = [interp EXCEPT ![i] = lua_close(r.L)]
                /\ UNCHANGED <<handle, crashed>>

(***************************************************************************)
(* The host.  It serializes the entrypoint calls.  A host that keeps its   *)
(* side of the contract calls no entrypoint with the handle of a stopped   *)
(* instance; HostContract says so for slot i.                              *)
(***************************************************************************)
HostContract(i) == handle[i] = LPTR => interp[i].status = "open"

HostStart(S, scripts, argvs) ==
    \E i \in S, path \in LibPaths, args \in argvs, script \in scripts, ok \in BOOLEAN :
        start(i, path, args, script, ok)

\* what the script's code may do in a dispatch of the named event on
\* slot i: it has a choice only where the interpreter is open and the
\* extension table holds a function under that name
ScriptChoices(i, name) ==
    IF interp[i].status = "open" /\ interp[i].ext[name].t = "function"
    THEN UserOutcomes
    ELSE {Returns(<<>>)}

HostMessage(S) ==
    \E i \in S : \E uo \in ScriptChoices(i, "process_message") : message_entrypoint(i, uo)
HostChat(S) ==
    \E i \in S : \E uo \in ScriptChoices(i, "process_chat") : chat_entrypoint(i, uo)
HostCommand(S) ==
    \E i \in S : \E uo \in ScriptChoices(i, "process_command") : command_entrypoint(i, uo)
HostStop(S) ==
    \E i \in S : \E uo \in ScriptChoices(i, "stop") : stop_entrypoint(i, uo)

\* the slots whose handle the host may still use
Live(S) == {i \in S : HostContract(i)}

\* one extension, any script; the host keeps the contract
Next ==
    \/ HostStart({"A"}, Scripts, Argvs)
    \/ HostMessage(Live({"A"}))
    \/ HostChat(Live({"A"}))
    \/ HostCommand(Live({"A"}))
    \/ HostStop(Live({"A"}))

Spec == Init /\ [][Next]_vars

\* one extension; the host may call again with the handle of a stopped
\* instance
NextStale ==
    \/ HostStart({"A"}, Scripts, Argvs)
    \/ HostMessage({"A"})
    \/ HostChat({"A"})
    \/ HostCommand({"A"})
    \/ HostStop({"A"})

SpecStale == Init /\ [][NextStale]_vars

\* every length of the argument list up to three, and library paths with
\* and without a directory part
ArgvsAll == {<<>>, <<"foo.lua">>, <<"foo.lua", "x">>, <<"foo.lua", "x", "y">>}

LibPathsAll ==
    LibPaths \cup {[abs |-> FALSE, parts |-> <<"glirc-lua.so">>],
                   [abs |-> TRUE,  parts |-> <<"glirc-lua.so">>],
                   [abs |-> FALSE, parts |-> <<"ext", "glirc-lua.so">>]}

AllHandlers == [n \in EventNames |-> Fn("handler")]

\* a few scripts: one that is missing, one that raises, one that returns
\* nothing and one that returns a table of callbacks and a second value
FewScripts ==
    {[load |-> "missing", run |-> NoOutcome, fields |-> NoFields],
     [load |-> "ok", run |-> Raises(Str("boom")), fields |-> NoFields],
     [load |-> "ok", run |-> Returns(<<>>), fields |-> NoFields],
     [load |-> "ok", run |-> Returns(<<Tbl("module"), Num("42")>>),
      fields |-> AllHandlers]}

HostStartFrom(S, paths, scripts, argvs) ==
    \E i \in S, path \in paths, args \in argvs, script \in scripts, ok \in BOOLEAN :
        start(i, path, args, script, ok)

\* one extension started from any of the library paths with any of the
\* argument lists; the host keeps the contract
NextArgs ==
    \/ HostStartFrom({"A"}, LibPathsAll, FewScripts, ArgvsAll)
    \/ HostMessage(Live({"A"}))
    \/ HostChat(Live({"A"}))
    \/ HostCommand(Live({"A"}))
    \/ HostStop(Live({"A"}))

SpecArgs == Init /\ [][NextArgs]_vars

\* scripts for two extensions side by side: a missing file, a top level
\* that raises nil, one that returns nothing, and tables with every
\* callback and with none
TwoScripts ==
    {[load |-> "missing", run |-> NoOutcome, fields |-> NoFields],
     [load |-> "ok", run |-> Raises(Nil), fields |-> NoFields],
     [load |-> "ok", run |-> Returns(<<>>), fields |-> NoFields],
     [load |-> "ok", run |-> Returns(<<Tbl("module")>>), fields |-> NoFields],
     [load |-> "ok", run |-> Returns(<<Tbl("module")>>), fields |-> AllHandlers]}

\* two extensions, each with its own lua_State; the host serializes the
\* calls and keeps the contract for both
NextTwo ==
    \/ HostStart(Instances, TwoScripts, {<<>>})
    \/ HostMessage(Live(Instances))
    \/ HostChat(Live(Instances))
    \/ HostCommand(Live(Instances))
    \/ HostStop(Live(Instances))

SpecTwo == Init /\ [][NextTwo]_vars


(***************************************************************************)
(* Vocabulary of the properties.                                           *)
(***************************************************************************)
DispatchOps == {"process_message", "process_chat", "process_command", "stop"}
ProcessOps  == {"process_message", "process_chat", "process_command"}
DecisionOps == {"process_message", "process_chat"}

\* what an entrypoint yields when it does nothing
NoOpResult(op) == IF op \in DecisionOps THEN PASS_MESSAGE ELSE VOID

\* the script calls and the diagnostic reports of a call record, in order
CallsOf(c)  == Only(c.trace, "call")
PrintsOf(c) == Only(c.trace, "glirc_print")

\* the call record is a dispatch on a running instance in which the
\* looked-up callback was invoked and raised an error
CallbackRaised(c) ==
    /\ c.op \in DispatchOps /\ c.handle = LPTR /\ c.live
    /\ Len(CallsOf(c)) = 1
    /\ CallsOf(c)[1].out.kind = "error"

\* ... in which the looked-up callback was invoked and returned normally
CallbackReturned(c) ==
    /\ c.op \in DispatchOps /\ c.handle = LPTR /\ c.live
    /\ Len(CallsOf(c)) = 1
    /\ CallsOf(c)[1].out.kind = "return"

\* Lua truth: every value but nil and false
Truthy(val) == val \notin {Nil, Bool(FALSE)}

(***************************************************************************)
(* C1.  As stated: in every dispatch (process_message, process_chat,       *)
(* process_command, stop) on a running instance whose callback raises, the *)
(* entrypoint yields PassMessage / nothing, exactly one diagnostic is      *)
(* reported, and the instance stays running, its interpreter state as it   *)
(* was before the dispatch.                                                *)
(***************************************************************************)
C1_RaiseKeepsRunning_AllDispatches ==
    [][CallbackRaised(last') =>
          /\ last'.result = NoOpResult(last'.op)
          /\ Len(PrintsOf(last')) = 1
          /\ interp'[last'.inst] = interp[last'.inst]]_vars

\* C1, amended.  A raising callback yields PassMessage / nothing and
\* exactly one diagnostic report and faults nothing.  After process_message,
\* process_chat and process_command the interpreter is exactly as before
\* the dispatch (still running); after stop the interpreter is released,
\* once and after the report, as stop does for every outcome of its callback.
C1_RaiseIsolated ==
    [][CallbackRaised(last') =>
          /\ last'.result = NoOpResult(last'.op)
          /\ Len(PrintsOf(last')) = 1
          /\ UNCHANGED <<handle, crashed>>
          /\ last'.op \in ProcessOps =>
                /\ interp'[last'.inst] = interp[last'.inst]
                /\ interp'[last'.inst].status = "open"
                /\ Count(last'.trace, "lua_close") = 0
          /\ last'.op = "stop" =>
                /\ interp'[last'.inst].status = "closed"
                /\ Count(last'.trace, "lua_close") = 1
                /\ last'.trace[Len(last'.trace)].ev = "lua_close"]_vars

\* a process_chat whose callback raised a table left the instance running
C1_Witness ==
    /\ CallbackRaised(last) /\ last.op = "process_chat"
    /\ CallsOf(last)[1].out = Raises(Tbl("errobj"))
    /\ last.result = PASS_MESSAGE
    /\ interp[last.inst].status = "open"

(***************************************************************************)
(* C2.  In every process_message or process_chat on a running instance     *)
(* whose callback returns normally, the entrypoint returns DropMessage if  *)
(* and only if the first returned value is truthy, and PassMessage if it   *)
(* is falsy or there is no returned value; further values are ignored.     *)
(***************************************************************************)
C2_DropIffTruthy ==
    (CallbackReturned(last) /\ last.op \in DecisionOps) =>
        LET vals == CallsOf(last)[1].out.vals
        IN  /\ last.result \in {PASS_MESSAGE, DROP_MESSAGE}
            /\ last.result = DROP_MESSAGE <=> (Len(vals) >= 1 /\ Truthy(vals[1]))

\* the callback returned 0, nil: the first value, the number 0, is truthy
C2_Witness ==
    /\ CallbackReturned(last) /\ last.op = "process_message"
    /\ CallsOf(last)[1].out = Returns(<<Num("0"), Nil>>)
    /\ last.result = DROP_MESSAGE


(***************************************************************************)
(* C3.  As stated: for every event kind, a dispatch on an instance whose   *)
(* CallbackTable slot has no entry for the event's name yields PassMessage *)
(* / nothing, reports no diagnostic and calls no script function.          *)
(***************************************************************************)
\* the slot value of interpreter L holds a non-nil field for the name
HasEntry(L, name) == L.registry = Tbl("module") /\ L.ext[name] # Nil

C3_AbsentIsSilentNoOp ==
    [][(/\ last'.op \in DispatchOps /\ last'.handle = LPTR /\ last'.live
        /\ ~HasEntry(interp[last'.inst], last'.op))
          => /\ last'.result = NoOpResult(last'.op)
             /\ PrintsOf(last') = <<>>
             /\ CallsOf(last') = <<>>]_vars

(***************************************************************************)
(* C4.  As stated: once stop has completed on a live instance, a later     *)
(* process_message, process_chat or process_command called with the same   *)
(* handle does nothing (PassMessage / nothing) and never runs against the  *)
(* destroyed interpreter.                                                  *)
(***************************************************************************)
C4_ProcessAfterStopIsNoOp ==
    (last.op \in ProcessOps /\ last.handle = LPTR /\ ~last.live) =>
        /\ last.result = NoOpResult(last.op)
        /\ last.trace = <<>>
        /\ ~crashed

(***************************************************************************)
(* C5.  Every entrypoint called with a null handle returns at once:        *)
(* process_message and process_chat return PassMessage, process_command    *)
(* and stop return nothing; no interpreter is touched, nothing is reported *)
(* and no state changes.                                                   *)
(***************************************************************************)
C5_NullHandleNoOp ==
    [][(last'.op \in DispatchOps /\ last'.handle = NULL) =>
          /\ last'.result = NoOpResult(last'.op)
          /\ last'.trace = <<>>
          /\ UNCHANGED <<handle, interp, crashed>>]_vars

\* start failed (null handle, interpreter released) and process_chat was
\* then called with the null handle
C5_Witness ==
    /\ last.op = "process_chat" /\ last.handle = NULL
    /\ handle[last.inst] = NULL
    /\ interp[last.inst].status = "closed"
    /\ last.result = PASS_MESSAGE

(***************************************************************************)
(* C6.  In every entrypoint call, on start's failure path and on the stop  *)
(* path, lua_close comes after every diagnostic report of that call: no    *)
(* report follows the release of the interpreter whose text it prints.     *)
(***************************************************************************)
C6_ReportBeforeRelease ==
    /\ \A pr \in Positions(last.trace, "glirc_print") :
          \A cl \in Positions(last.trace, "lua_close") : pr < cl
    /\ Count(last.trace, "lua_close") <= 1
    /\ Count(last.trace, "lua_close") = 1 =>
          last.trace[Len(last.trace)].ev = "lua_close"

\* start failed on a script error whose text the interpreter owns: the
\* report and then the release
C6_Witness ==
    /\ last.op = "start" /\ last.result = NULL
    /\ Len(PrintsOf(last)) = 1
    /\ PrintsOf(last)[1].msg = CStr("boom")
    /\ Count(last.trace, "lua_close") = 1

(***************************************************************************)
(* C7.  As stated: when the script's top level returns a value that is not *)
(* a table, start fails: it reports an error, releases the interpreter and *)
(* returns a null instance.                                                *)
(***************************************************************************)
\* start ran the script's top level
ScriptRan(c) ==
    /\ c.op = "start"
    /\ Len(CallsOf(c)) = 1
    /\ CallsOf(c)[1].fn = Fn("script")

C7_NonTableFailsStart ==
    (/\ ScriptRan(last)
     /\ CallsOf(last)[1].out.kind = "return"
     /\ Adjust(CallsOf(last)[1].out.vals, 1)[1].t # "table")
        => /\ last.result = NULL
           /\ Len(PrintsOf(last)) = 1
           /\ interp[last.inst].status = "closed"
           /\ handle[last.inst] = NULL

(***************************************************************************)
(* C8.  As stated: a missing script file, a compile error and an error     *)
(* raised by the script's top level all end start the same way: exactly    *)
(* one diagnostic report, the interpreter released exactly once, nothing   *)
(* retained and a null instance returned; a successful start reports       *)
(* nothing and returns a live instance whose interpreter is not released.  *)
(***************************************************************************)
\* start got as far as loading the script and the load or the run failed
ScriptFailed(c) ==
    /\ c.op = "start"
    /\ Count(c.trace, "luaL_loadfile") = 1
    /\ \/ c.script.load \in {"missing", "syntax"}
       \/ ScriptRan(c) /\ CallsOf(c)[1].out.kind = "error"

C8_UniformStartFailure ==
    /\ ScriptFailed(last) =>
          /\ last.result = NULL
          /\ Len(PrintsOf(last)) = 1
          /\ Count(last.trace, "lua_close") = 1
          /\ interp[last.inst] = ClosedInterp
          /\ handle[last.inst] = NULL
          /\ ~crashed
    /\ (last.op = "start" /\ last.result = LPTR) =>
          /\ PrintsOf(last) = <<>>
          /\ Count(last.trace, "lua_close") = 0
          /\ interp[last.inst].status = "open"

(***************************************************************************)
(* C9.  As stated: for every error value the script's top level can raise, *)
(* a string or not (nil, boolean, table), start obtains a textual message, *)
(* reports it and returns null; it never dereferences a null message and   *)
(* the host process does not fault.                                        *)
(***************************************************************************)
C9_StartReportsEveryError ==
    (ScriptRan(last) /\ CallsOf(last)[1].out.kind = "error") =>
        /\ ~crashed
        /\ last.result = NULL
        /\ Len(PrintsOf(last)) = 1
        /\ ~PrintsOf(last)[1].msg.null

(***************************************************************************)
(* C10.  As stated: when a callback raises an error value that is not a    *)
(* string, the dispatch reports exactly one diagnostic whose message is a  *)
(* present (non-null) text coerced from the value.                         *)
(***************************************************************************)
C10_NonStringErrorHasText ==
    (CallbackRaised(last) /\ CallsOf(last)[1].out.vals[1].t # "string") =>
        /\ Len(PrintsOf(last)) = 1
        /\ ~PrintsOf(last)[1].msg.null

(***************************************************************************)
(* C11.  As stated: after a start with an argument list of length n that   *)
(* ran the script and succeeded, the global arg is the argument table, it  *)
(* holds the resolved script path at index 0 and, for every i with         *)
(* 1 <= i < n, it holds argv[i] at index i.                                *)
(***************************************************************************)
\* the script path start resolves for a library path and an argument list
ResolvedPath(path, args) ==
    IF Len(args) = 0
    THEN Str(dirname(path) \o "/glirc.lua")
    ELSE Str(glirc_resolve_path(args[1]))

C11_ArgHoldsArgv ==
    (last.op = "start" /\ last.result = LPTR) =>
        LET tab == interp[last.inst].argtab
        IN  /\ interp[last.inst].garg = Tbl("arg")
            /\ 0 \in DOMAIN tab
            /\ tab[0] = ResolvedPath(last.path, last.args)
            /\ \A k \in 1..(Len(last.args) - 1) :
                  /\ k \in DOMAIN tab
                  /\ tab[k] = Str(last.args[k + 1])     \* argv[k], 0-based

(***************************************************************************)
(* C12.  A start with an empty argument list takes as script path the      *)
(* directory component of the library path followed by /glirc.lua and      *)
(* makes no call of the path-resolution service; a start with at least one *)
(* argument calls the service once, with argv[0], and takes exactly the    *)
(* service's result as script path.  The script path is the file name      *)
(* given to luaL_loadfile and the value at index 0 of arg.                 *)
(***************************************************************************)
\* start got as far as loading the script
LoadedScript(c) == c.op = "start" /\ Count(c.trace, "luaL_loadfile") = 1

\* the file name start gave to luaL_loadfile
ScriptPathOf(c) == Only(c.trace, "luaL_loadfile")[1].args[1]

ResolvesOf(c) == Only(c.trace, "glirc_resolve_path")

Running(j) == handle[j] = LPTR /\ interp[j].status = "open" /\ ~crashed

C13_InstancesIndependent ==
    [][/\ \A j \in Instances \ {last'.inst} :
            /\ interp'[j] = interp[j]
            /\ handle'[j] = handle[j]
            /\ Running(j) => Running(j)'
       /\ (last'.op \in DispatchOps /\ last'.handle = LPTR /\ last'.live) =>
            (CallsOf(last') # <<>>
                <=> /\ interp[last'.inst].registry.t = "table"
                    /\ interp[last'.inst].ext[last'.op].t = "function")]_vars

(***************************************************************************)
(* C14.  As stated: start invokes the user script with exactly two         *)
(* positional parameters, the arg table and the resolved script path, and  *)
(* stores exactly one value returned by it as the CallbackTable slot.      *)
(***************************************************************************)
\* the one value of a list of results that is kept: the first, or nil
FirstOrNil(vals) == IF Len(vals) = 0 THEN Nil ELSE vals[1]

C14_ScriptGetsArgAndPath ==
    ScriptRan(last) =>
        /\ CallsOf(last)[1].args = <<Tbl("arg"), Str(ScriptPathOf(last))>>
        /\ CallsOf(last)[1].out.kind = "return" =>
              interp[last.inst].registry = FirstOrNil(CallsOf(last)[1].out.vals)

\* C14, amended.  start invokes the user script with no positional
\* parameter: the argument table reaches it as the global arg, which holds
\* the resolved script path at index 0.  When the script returns, start
\* succeeds and exactly one value is stored as the CallbackTable slot: the
\* first value returned, or nil when the script returns none.
C14_ScriptGetsGlobalArg ==
    ScriptRan(last) =>
        /\ CallsOf(last)[1].args = <<>>
        /\ CallsOf(last)[1].out.kind = "return" =>
              /\ last.result = LPTR
              /\ interp[last.inst].garg = Tbl("arg")
              /\ interp[last.inst].argtab[0] = Str(ScriptPathOf(last))
              /\ interp[last.inst].registry = FirstOrNil(CallsOf(last)[1].out.vals)

\* the script returned a table and a number: the table is the slot
C14_Witness ==
    /\ ScriptRan(last) /\ last.result = LPTR
    /\ CallsOf(last)[1].args = <<>>
    /\ CallsOf(last)[1].out = Returns(<<Tbl("module"), Num("42")>>)
    /\ interp[last.inst].registry = Tbl("module")

(***************************************************************************)
(* C15.  The CallbackTable slot of an instance is written exactly once, by *)
(* a start that succeeds (and by no start that fails); no process_message, *)
(* process_chat, process_command or stop writes it, whatever the callback  *)
(* does: after a process_* call the slot and the table's entries are what  *)
(* they were, and stop only releases the interpreter that holds the slot.  *)
(***************************************************************************)
C15_SlotWrittenOnce ==
    [][/\ (last'.op \in DispatchOps /\ last'.handle = LPTR /\ last'.live) =>
            /\ Count(last'.trace, "lua_rawsetp") = 0
            /\ last'.op \in ProcessOps =>
                  /\ interp'[last'.inst].status = "open"
                  /\ interp'[last'.inst].registry = interp[last'.inst].registry
                  /\ interp'[last'.inst].ext = interp[last'.inst].ext
            /\ last'.op = "stop" => interp'[last'.inst] = ClosedInterp
       /\ last'.op = "start" =>
            /\ Count(last'.trace, "lua_rawsetp") = (IF last'.result = LPTR THEN 1 ELSE 0)
            /\ last'.result = LPTR =>
                  /\ ScriptRan(last')
                  /\ interp'[last'.inst].registry
                        = FirstOrNil(CallsOf(last')[1].out.vals)]_vars

\* a process_command whose callback returned a truthy value left the slot as
\* start had written it
C15_Witness ==
    /\ CallbackReturned(last) /\ last.op = "process_command"
    /\ CallsOf(last)[1].out.vals # <<>>
    /\ Truthy(CallsOf(last)[1].out.vals[1])
    /\ interp[last.inst].status = "open"
    /\ interp[last.inst].registry = Tbl("module")

(***************************************************************************)
(* C16.  stop on a running instance first dispatches the stop event and    *)
(* then releases the interpreter: the stop callback, when the table has    *)
(* one, is called exactly once, and whether it is absent, returns or       *)
(* raises, lua_close happens exactly once, as the last thing the call      *)
(* does.  No process_message, process_chat or process_command releases    *)
(* the interpreter: a running instance stops being so only by stop.        *)
(***************************************************************************)
\* the slot of L is a table whose entry for the name is a function
HasCallback(L, name) == L.registry.t = "table" /\ L.ext[name].t = "function"

C16_StopDispatchesThenReleases ==
    [][/\ (last'.op = "stop" /\ last'.handle = LPTR /\ last'.live) =>
            /\ last'.trace[1].ev = "lua_pcall"
            /\ Len(CallsOf(last'))
                  = (IF HasCallback(interp[last'.inst], "stop") THEN 1 ELSE 0)
            /\ Count(last'.trace, "lua_close") = 1
            /\ last'.trace[Len(last'.trace)].ev = "lua_close"
            /\ interp[last'.inst].status = "open"
            /\ interp'[last'.inst].status = "closed"
       /\ (last'.op \in ProcessOps /\ last'.handle = LPTR /\ last'.live) =>
            /\ Count(last'.trace, "lua_close") = 0
            /\ interp'[last'.inst].status = "open"
       /\ \A j \in Instances :
            (/\ handle[j] = LPTR /\ interp[j].status = "open"
             /\ interp'[j].status # "open")
                => last'.op = "stop" /\ last'.inst = j]_vars

\* a stop whose callback raised: called once, reported, then released
C16_Witness ==
    /\ CallbackRaised(last) /\ last.op = "stop"
    /\ Len(PrintsOf(last)) = 1
    /\ last.trace[Len(last.trace)].ev = "lua_close"
    /\ interp[last.inst].status = "closed"

(***************************************************************************)
(* C17.  As stated: in every start that creates an interpreter, the host's *)
(* bindings are installed exactly once and the global arg is set exactly   *)
(* once, both before any code of the user script runs.                     *)
(***************************************************************************)
\* start created an interpreter and entered initialize_lua
Bootstrapped(c) == c.op = "start" /\ Count(c.trace, "lua_pcall") = 1

\* every script call of the trace comes after an event of the kind
CallsComeAfter(tr, e) ==
    \A c \in Positions(tr, "call") : \E p \in Positions(tr, e) : p < c

C17_InstallOnceInEveryBootstrap ==
    Bootstrapped(last) =>
        /\ Count(last.trace, "glirc_install_lib") = 1
        /\ Count(last.trace, "lua_setglobal") = 1
        /\ CallsComeAfter(last.trace, "glirc_install_lib")
        /\ CallsComeAfter(last.trace, "lua_setglobal")

\* C17, amended.  In every start whose script file loads, the bindings are
\* installed exactly once and the global arg is set exactly once, both
\* before the script's top-level code runs, and that code then runs once.
\* In a start whose script file is missing or does not compile, the
\* bindings are not installed, arg is not set and no script code runs.
C17_InstallBeforeScript ==
    Bootstrapped(last) =>
        /\ Count(last.trace, "glirc_install_lib")
              = (IF last.script.load = "ok" THEN 1 ELSE 0)
        /\ Count(last.trace, "lua_setglobal")
              = (IF last.script.load = "ok" THEN 1 ELSE 0)
        /\ Len(CallsOf(last)) = (IF last.script.load = "ok" THEN 1 ELSE 0)
        /\ CallsComeAfter(last.trace, "glirc_install_lib")
        /\ CallsComeAfter(last.trace, "lua_setglobal")

\* a start whose script raised at top level had installed the bindings
\* and set arg before
C17_Witness ==
    /\ Bootstrapped(last) /\ ScriptRan(last)
    /\ CallsOf(last)[1].out = Raises(Str("boom"))
    /\ Count(last.trace, "glirc_install_lib") = 1
    /\ Count(last.trace, "lua_setglobal") = 1

(***************************************************************************)
(* C18.  Whenever control is in the host between entrypoint calls, the     *)
(* value stack of a running instance's interpreter is empty: after a       *)
(* successful start and after every process_message, process_chat and      *)
(* process_command, whether the callback was absent, returned (any number  *)
(* of values) or raised.  Hence callback finds the worker at index 1 and   *)
(* reads at index 1 the callback's result: the decision of a dispatch      *)
(* whose callback returned is that of the first returned value, or of nil. *)
(***************************************************************************)
C18_StackEmptyBetweenCalls ==
    /\ \A i \in Instances :
          (handle[i] = LPTR /\ interp[i].status = "open") => interp[i].stack = <<>>
    /\ (last.op \in DispatchOps /\ last.handle = LPTR /\ last.live) =>
          /\ Len(CallsOf(last)) <= 1
          /\ \A k \in 1..Len(CallsOf(last)) : CallsOf(last)[k].fn.t = "function"
    /\ (CallbackReturned(last) /\ last.op \in DecisionOps) =>
          last.result = (IF Truthy(FirstOrNil(CallsOf(last)[1].out.vals))
                         THEN DROP_MESSAGE ELSE PASS_MESSAGE)

\* a process_chat whose callback returned as many values as the bound
\* allows left the stack empty and the instance running
C18_Witness ==
    /\ CallbackReturned(last) /\ last.op = "process_chat"
    /\ Len(CallsOf(last)[1].out.vals) = MaxResults
    /\ handle[last.inst] = LPTR
    /\ interp[last.inst].status = "open"
    /\ interp[last.inst].stack = <<>>

(***************************************************************************)
(* C19.  In a dispatch on a running instance whose CallbackTable holds a   *)
(* function under the event's name, that function is called exactly once,  *)
(* with exactly 1 + nargs arguments: the CallbackTable itself, then the    *)
(* marshaled event values in order (one for process_message, process_chat  *)
(* and process_command, none for stop); the event name is not among them.  *)
(***************************************************************************)
\* the marshaled values of an event, as the entrypoint pushes them
Marshaled(op) ==
    IF op = "process_message" THEN <<push_glirc_message>>
    ELSE IF op = "process_chat" THEN <<push_glirc_chat>>
    ELSE IF op = "process_command" THEN <<push_glirc_command>>
    ELSE <<>>

C19_CallbackGetsTableThenArgs ==
    [][(/\ last'.op \in DispatchOps /\ last'.handle = LPTR /\ last'.live
        /\ HasCallback(interp[last'.inst], last'.op))
          => /\ Len(CallsOf(last')) = 1
             /\ CallsOf(last')[1].fn = interp[last'.inst].ext[last'.op]
             /\ CallsOf(last')[1].args
                   = <<interp[last'.inst].registry>> \o Marshaled(last'.op)
             /\ Len(CallsOf(last')[1].args)
                   = 1 + (IF last'.op = "stop" THEN 0 ELSE 1)
             /\ \A k \in 1..Len(CallsOf(last')[1].args) :
                   CallsOf(last')[1].args[k] # Str(last'.op)]_vars

\* a process_message whose callback was called with the table and the
\* message
C19_Witness ==
    /\ last.op = "process_message" /\ last.live
    /\ Len(CallsOf(last)) = 1
    /\ CallsOf(last)[1].fn = Fn("handler")
    /\ CallsOf(last)[1].args = <<Tbl("module"), Tbl("message")>>

(***************************************************************************)
(* C20.  As stated: over any sequence of entrypoint calls the host makes   *)
(* with one instance handle, a second stop with the same non-null handle   *)
(* included, the interpreter is released at most once and the stop         *)
(* callback is called at most once: a stop called on an instance that an   *)
(* earlier stop has released releases nothing, calls nothing and faults    *)
(* nothing, and the instance stays stopped.                                *)
(***************************************************************************)
C20_ReleasedAtMostOnce ==
    [][(/\ last'.op = "stop" /\ last'.handle = LPTR
        /\ interp[last'.inst].status = "closed")
          => /\ Count(last'.trace, "lua_close") = 0
             /\ Count(last'.trace, "use_after_free") = 0
             /\ CallsOf(last') = <<>>
             /\ ~crashed'
             /\ interp'[last'.inst].status = "closed"]_vars

====
